---- MODULE Spec2Model ----
(***************************************************************************)
(* User-based collaborative filtering (src/src/recommenderSystem.py).      *)
(*                                                                         *)
(* Numbers.  A float is modelled by the exact real it stands for, or by     *)
(* NaN.  The reals that arise are sums of rationals times square roots:     *)
(* a similarity is c / sqrt(d) for integers c and d, and predict_ratings    *)
(* adds, multiplies and divides similarities and ratings.  A real is the    *)
(* set of the terms <<r, num, den>> of its sum (num / den) * sqrt(r), over  *)
(* distinct square-free r >= 1, with num / den # 0 in lowest terms; the     *)
(* empty set is 0.  Square roots of distinct square-free integers are       *)
(* linearly independent over the rationals, so equal reals are equal sets.  *)
(* Comparisons follow IEEE 754: every comparison with NaN is false except   *)
(* "!=", which is true.  Rounding is not modelled.                          *)
(***************************************************************************)
EXTENDS Integers, Sequences, FiniteSets, TLC

\* Bounds of the explored inputs.
NumUsers == 3
NumMovies == 3
MaxRating == 2
MaxRows == 4
MaxN == 3
MaxItems == 3

\* Default arguments of the source.
DefaultNeighbors == 40
DefaultTopN == 10

UserIds == 1..NumUsers
MovieIds == 1..NumMovies

VARIABLES
    ratings,        \* the merged ratings DataFrame: ratings[u][m] in 1..MaxRating, 0 when (u, m) has no row
    title,          \* the movies table: movieId -> title
    files,          \* the file system: path -> [present, header, rows]
    similarity_df,  \* the similarity DataFrame the caller holds
    predictions,    \* the predictions dict the caller holds, in insertion order
    op,             \* the last call that completed ("start": none yet)
    target_user,    \* its target_user argument (0: none)
    n,              \* its n argument
    outcome,        \* "ok", or the exception it raised
    similar_users,  \* the Series get_top_similar_users returned
    top_movies,     \* the list recommend_movies returned
    exists          \* the bool does_correlation_matrix_exist returned

vars == <<ratings, title, files, similarity_df, predictions, op, target_user, n,
          outcome, similar_users, top_movies, exists>>

----------------------------------------------------------------------------
\* Exact arithmetic with NaN.

Abs(x) == IF x < 0 THEN -x ELSE x

Sgn(x) == IF x < 0 THEN -1 ELSE IF x > 0 THEN 1 ELSE 0

RECURSIVE Gcd(_, _)
Gcd(a, b) == IF b = 0 THEN a ELSE Gcd(b, a % b)

RECURSIVE ISqrt(_, _)
ISqrt(x, r) == IF (r + 1) * (r + 1) > x THEN r ELSE ISqrt(x, r + 1)

\* The largest k with k * k dividing d, for d >= 1.
SquarePart(d) ==
    CHOOSE k \in 1..ISqrt(d, 0) :
        /\ d % (k * k) = 0
        /\ \A j \in (k + 1)..ISqrt(d, 0) : d % (j * j) # 0

\* Rational coefficients: <<num, den>> in lowest terms with den > 0.
Q(num, den) ==
    LET g == Gcd(Abs(num), Abs(den))
    IN  <<Sgn(den) * Sgn(num) * (Abs(num) \div g), Abs(den) \div g>>

QAdd(a, b) == Q(a[1] * b[2] + b[1] * a[2], a[2] * b[2])

QMul(a, b) == Q(a[1] * b[1], a[2] * b[2])

NaN == {<<0, 0, 0>>}

IsNaN(x) == x = NaN

Radicands(x) == {t[1] : t \in x}

\* The coefficient of sqrt(r) in x.
Coef(x, r) ==
    IF r \in Radicands(x)
    THEN LET t == CHOOSE t \in x : t[1] = r IN <<t[2], t[3]>>
    ELSE <<0, 1>>

\* The real with coefficient f[r] at sqrt(r), zero terms dropped.
Trim(f) == {<<r, f[r][1], f[r][2]>> : r \in {r \in DOMAIN f : f[r][1] # 0}}

\* num / den as a float; x / 0 is NaN (only 0 / 0 arises: the mean of no rows).
Rat(num, den) == IF den = 0 THEN NaN ELSE Trim([r \in {1} |-> Q(num, den)])

FromInt(i) == Rat(i, 1)

\* c / sqrt(d) for d >= 0: with d = k * k * r it is (c / (k * r)) * sqrt(r);
\* NaN when d = 0 (then c = 0 too and the float division is 0 / 0).
Surd(c, d) ==
    IF d = 0 THEN NaN
    ELSE LET k == SquarePart(d)
         IN  Trim([r \in {d \div (k * k)} |-> Q(c, k * r)])

FAdd(x, y) ==
    IF IsNaN(x) \/ IsNaN(y) THEN NaN
    ELSE Trim([r \in Radicands(x) \cup Radicands(y) |-> QAdd(Coef(x, r), Coef(y, r))])

FNeg(x) == IF IsNaN(x) THEN NaN ELSE {<<t[1], -t[2], t[3]>> : t \in x}

FSub(x, y) == FAdd(x, FNeg(y))

\* sqrt(a) * sqrt(b) = Gcd(a, b) * sqrt(Radicand(a, b)) for square-free a and b.
Radicand(a, b) == (a \div Gcd(a, b)) * (b \div Gcd(a, b))

\* The sum over the pairs <<a, b>> of S of the products of the terms of x at
\* sqrt(a) and of y at sqrt(b), all of them multiples of one square root.
RECURSIVE SumProducts(_, _, _)
SumProducts(S, x, y) ==
    IF S = {} THEN <<0, 1>>
    ELSE LET ab == CHOOSE ab \in S : TRUE
         IN  QAdd(QMul(QMul(Coef(x, ab[1]), Coef(y, ab[2])), <<Gcd(ab[1], ab[2]), 1>>),
                  SumProducts(S \ {ab}, x, y))

FMul(x, y) ==
    IF IsNaN(x) \/ IsNaN(y) THEN NaN
    ELSE LET pairs == Radicands(x) \X Radicands(y)
         IN  Trim([r \in {Radicand(ab[1], ab[2]) : ab \in pairs} |->
                 SumProducts({ab \in pairs : Radicand(ab[1], ab[2]) = r}, x, y)])

\* The smallest prime that divides a radicand of x (one of them is not 1).
SmallestPrime(x) ==
    LET most == CHOOSE m \in Radicands(x) : \A r \in Radicands(x) : r <= m
        divisors == {d \in 2..most : \E r \in Radicands(x) : r % d = 0}
    IN  CHOOSE p \in divisors : \A d \in divisors : p <= d

\* x = Without(x, p) + With(x, p) * sqrt(p) for a prime p.
Without(x, p) == {t \in x : t[1] % p # 0}

With(x, p) == {<<t[1] \div p, t[2], t[3]>> : t \in {t \in x : t[1] % p = 0}}

\* (A + B * sqrt(p)) * (A - B * sqrt(p)) = A * A - p * B * B, free of sqrt(p).
Norm(x, p) ==
    FSub(FMul(Without(x, p), Without(x, p)),
         FMul(FromInt(p), FMul(With(x, p), With(x, p))))

\* The sign of a real x = A + B * sqrt(p): that of A and B when they agree,
\* otherwise A wins exactly when A * A > p * B * B.
RECURSIVE Sign(_)
Sign(x) ==
    IF x = {} THEN 0
    ELSE IF Cardinality(x) = 1 THEN Sgn((CHOOSE t \in x : TRUE)[2])
    ELSE LET p == SmallestPrime(x)
             sa == Sign(Without(x, p))
             sb == Sign(With(x, p))
         IN  IF sa = 0 THEN sb
             ELSE IF sa = sb THEN sa
             ELSE sa * Sign(Norm(x, p))

\* 1 / x for a real x # 0: 1 / (A + B * sqrt(p)) = (A - B * sqrt(p)) / Norm.
RECURSIVE Inverse(_)
Inverse(x) ==
    IF Cardinality(x) = 1
    THEN LET t == CHOOSE t \in x : TRUE
         IN  {<<t[1], Q(t[3], t[2] * t[1])[1], Q(t[3], t[2] * t[1])[2]>>}
    ELSE LET p == SmallestPrime(x)
         IN  FMul(FSub(Without(x, p), FMul(With(x, p), Surd(p, p))),
                  Inverse(Norm(x, p)))

\* x / y; the only division of the source (line 156) is guarded by
\* similarity_sum != 0, and 0 / 0 is NaN.
FDiv(x, y) ==
    IF IsNaN(x) \/ IsNaN(y) \/ y = {} THEN NaN
    ELSE FMul(x, Inverse(y))

\* x == y, x != y, x < y and x >= y on floats.
FEq(x, y) == ~IsNaN(x) /\ ~IsNaN(y) /\ x = y

FNe(x, y) == ~FEq(x, y)

FLt(x, y) == ~IsNaN(x) /\ ~IsNaN(y) /\ Sign(FSub(x, y)) < 0

FGe(x, y) == ~IsNaN(x) /\ ~IsNaN(y) /\ Sign(FSub(x, y)) >= 0

----------------------------------------------------------------------------
\* Sequences.

RECURSIVE SumSeq(_)
SumSeq(s) == IF s = <<>> THEN 0 ELSE Head(s) + SumSeq(Tail(s))

RECURSIVE SortedSeq(_)
SortedSeq(S) ==
    IF S = {} THEN <<>>
    ELSE LET lo == CHOOSE x \in S : \A y \in S : x <= y
         IN  <<lo>> \o SortedSeq(S \ {lo})

Range(s) == {s[i] : i \in DOMAIN s}

\* The positions of label x in a sequence of labels.
IndexOf(s, x) == CHOOSE i \in DOMAIN s : s[i] = x

\* s[0:k] of Python: the first k elements, or all but the last -k when k < 0.
Slice(s, k) ==
    LET stop == IF k >= 0 THEN (IF k < Len(s) THEN k ELSE Len(s))
                ELSE (IF Len(s) + k > 0 THEN Len(s) + k ELSE 0)
    IN  SubSeq(s, 1, stop)

\* The orders of 1..len: sequences holding every position once.
Orders(len) == {p \in [1..len -> 1..len] : \A i, j \in 1..len : p[i] = p[j] => i = j}

----------------------------------------------------------------------------
\* The ratings DataFrame.  Its rows are in the order of the ratings file,
\* by userId and then by movieId.

Rated(r, u, m) == u \in UserIds /\ m \in MovieIds /\ r[u][m] # 0

\* ratings[ratings['userId'] == user]['movieId']
RatedMovies(r, u) == {m \in MovieIds : Rated(r, u, m)}

\* ratings[ratings['userId'] == user]['rating'].mean(): NaN when user has no row.
MeanRating(r, u) ==
    LET ms == SortedSeq(RatedMovies(r, u))
    IN  Rat(SumSeq([k \in DOMAIN ms |-> r[u][ms[k]]]), Len(ms))

\* pivot_table(index='userId', columns='movieId', values='rating').fillna(0):
\* the sorted userIds and movieIds that have a row, and 0 where a pair has none.
PivotUsers(r) == SortedSeq({u \in UserIds : RatedMovies(r, u) # {}})

PivotMovies(r) == SortedSeq({m \in MovieIds : \E u \in UserIds : Rated(r, u, m)})

UserMovieMatrix(r, u, m) == IF Rated(r, u, m) THEN r[u][m] ELSE 0

----------------------------------------------------------------------------
\* DataFrames of similarities and the CSV files that hold them.

DataFrame(idx, cols, dt, vals) ==
    [index |-> idx, columns |-> cols, dtype |-> dt, values |-> vals]

NoFrame == DataFrame(<<>>, <<>>, "int64", <<>>)

SavePath == "pearsonCorrelationMatrix.csv"

LoadPath == "src/pearsonCorrelationMatrix.csv"

ExistsPath == "src/correlationMatrix.csv"

Paths == {SavePath, LoadPath, ExistsPath}

NoFile == [present |-> FALSE, header |-> <<>>, rows |-> <<>>]

\* df.to_csv(path, index=False): the column labels as text, then the rows of
\* values; the index is not written.
ToCsv(df) == [present |-> TRUE, header |-> df.columns, rows |-> df.values]

\* pd.read_csv(path): the header's texts are the column labels (dtype object),
\* the index is the RangeIndex 0..len-1.
ReadCsv(f) ==
    DataFrame([i \in 1..Len(f.rows) |-> i - 1], f.header, "object", f.rows)

\* np.corrcoef(user_movie_matrix)[u][v]: with N movies and S(u) the sum of u's
\* row, cov(u, v) * N^2 * (N - 1) = sum over m of (N*x[u][m] - S(u)) * (N*x[v][m] - S(v)),
\* and the coefficient is cov(u, v) / sqrt(cov(u, u) * cov(v, v)), NaN when a
\* variance is 0.
RowSum(r, u, ms) == SumSeq([k \in DOMAIN ms |-> UserMovieMatrix(r, u, ms[k])])

Cov(r, u, v, ms) ==
    SumSeq([k \in DOMAIN ms |->
        (Len(ms) * UserMovieMatrix(r, u, ms[k]) - RowSum(r, u, ms))
      * (Len(ms) * UserMovieMatrix(r, v, ms[k]) - RowSum(r, v, ms))])

Corrcoef(r, u, v, ms) ==
    Surd(Cov(r, u, v, ms), Cov(r, u, u, ms) * Cov(r, v, v, ms))

\* sklearn's cosine_similarity(user_movie_matrix)[u][v]: the dot product of the
\* rows over the product of their norms; a row of norm 0 is left as it is, so
\* its similarities are 0.
Dot(r, u, v, ms) ==
    SumSeq([k \in DOMAIN ms |->
        UserMovieMatrix(r, u, ms[k]) * UserMovieMatrix(r, v, ms[k])])

Cosine(r, u, v, ms) ==
    IF Dot(r, u, u, ms) * Dot(r, v, v, ms) = 0 THEN FromInt(0)
    ELSE Surd(Dot(r, u, v, ms), Dot(r, u, u, ms) * Dot(r, v, v, ms))

\* np.fill_diagonal(matrix, 0)
FillDiagonal(i, j, x) == IF i = j THEN FromInt(0) ELSE x

\* The DataFrame pearson_similarity_matrix builds (lines 50-55).
PearsonFrame(r) ==
    LET us == PivotUsers(r)
        ms == PivotMovies(r)
    IN  DataFrame(us, us, "int64",
            [i \in DOMAIN us |-> [j \in DOMAIN us |->
                FillDiagonal(i, j, Corrcoef(r, us[i], us[j], ms))]])

\* With one user np.corrcoef returns a 0-d value and np.fill_diagonal raises.
PearsonRaises(r) == Len(PivotUsers(r)) < 2

\* The DataFrame cosine_similarity_matrix returns (lines 70-76).
CosineFrame(r) ==
    LET us == PivotUsers(r)
        ms == PivotMovies(r)
    IN  DataFrame(us, us, "int64",
            [i \in DOMAIN us |-> [j \in DOMAIN us |->
                FillDiagonal(i, j, Cosine(r, us[i], us[j], ms))]])

----------------------------------------------------------------------------
\* get_top_similar_users

\* similarity_df[target_user] raises KeyError unless target_user is a column label.
HasColumn(df, t) == df.dtype = "int64" /\ t \in Range(df.columns)

\* similarity_df[target_user]: the column as a sequence over the index positions.
Column(df, t) == [i \in DOMAIN df.index |-> df.values[i][IndexOf(df.columns, t)]]

\* sort_values(ascending=False): the values in non-increasing order and the NaN
\* after them in their own order; the order among equal values is not fixed
\* (the default sort kind is not stable).
DescendingOrders(col) ==
    {p \in Orders(Len(col)) :
        \A i, j \in DOMAIN col : i < j =>
            /\ IsNaN(col[p[i]]) => (IsNaN(col[p[j]]) /\ p[i] < p[j])
            /\ ~IsNaN(col[p[j]]) => ~FLt(col[p[i]], col[p[j]])}

\* The Series of line 90 under the order p: <<userId, similarity>> pairs.
TopSimilarUsers(df, t, k, p) ==
    LET col == Column(df, t)
    IN  Slice([i \in DOMAIN p |-> <<df.index[p[i]], col[p[i]]>>], k)

----------------------------------------------------------------------------
\* predict_ratings

RECURSIVE Concat(_)
Concat(ss) == IF ss = <<>> THEN <<>> ELSE Head(ss) \o Concat(Tail(ss))

\* drop_duplicates(): the first occurrence of each element, in order.
RECURSIVE DropDuplicates(_)
DropDuplicates(s) ==
    IF s = <<>> THEN <<>>
    ELSE LET front == DropDuplicates(SubSeq(s, 1, Len(s) - 1))
         IN  IF s[Len(s)] \in Range(front) THEN front ELSE Append(front, s[Len(s)])

\* The movieIds of unseen_movies (lines 132-134): the rows of the users in
\* similar_users.index, without the movies target_user rated, duplicates dropped.
UnseenMovies(r, t, nb) ==
    LET us == SortedSeq({nb[k][1] : k \in DOMAIN nb} \cap UserIds)
    IN  DropDuplicates(Concat([k \in DOMAIN us |->
            SortedSeq(RatedMovies(r, us[k]) \ RatedMovies(r, t))]))

\* weighted_sum and similarity_sum of lines 146-153 over the neighbours nb[1..k].
RECURSIVE WeightedSum(_, _, _, _)
WeightedSum(r, nb, m, k) ==
    IF k = 0 THEN FromInt(0)
    ELSE IF Rated(r, nb[k][1], m)
         THEN FAdd(WeightedSum(r, nb, m, k - 1),
                   FMul(nb[k][2],
                        FSub(FromInt(r[nb[k][1]][m]), MeanRating(r, nb[k][1]))))
         ELSE WeightedSum(r, nb, m, k - 1)

RECURSIVE SimilaritySum(_, _, _, _)
SimilaritySum(r, nb, m, k) ==
    IF k = 0 THEN FromInt(0)
    ELSE IF Rated(r, nb[k][1], m)
         THEN FAdd(SimilaritySum(r, nb, m, k - 1), nb[k][2])
         ELSE SimilaritySum(r, nb, m, k - 1)

\* predicted_rating of line 156.
PredictedRating(r, nb, t, m) ==
    FAdd(MeanRating(r, t),
         FDiv(WeightedSum(r, nb, m, Len(nb)), SimilaritySum(r, nb, m, Len(nb))))

\* d[key] = value on a dict kept as the sequence of its <<key, value>> items.
DictSet(d, key, value) ==
    IF \E i \in DOMAIN d : d[i][1] = key
    THEN [i \in DOMAIN d |-> IF d[i][1] = key THEN <<key, value>> ELSE d[i]]
    ELSE Append(d, <<key, value>>)

\* The loop of lines 142-157 from row k of unseen_movies on, predicted_ratings
\* being d so far.
RECURSIVE PredictedRatings(_, _, _, _, _, _, _)
PredictedRatings(d, r, ttl, nb, t, unseen, k) ==
    IF k > Len(unseen) THEN d
    ELSE PredictedRatings(
             IF FNe(SimilaritySum(r, nb, unseen[k], Len(nb)), FromInt(0))
             THEN DictSet(d, ttl[unseen[k]], PredictedRating(r, nb, t, unseen[k]))
             ELSE d,
             r, ttl, nb, t, unseen, k + 1)

----------------------------------------------------------------------------
\* recommend_movies

\* sorted(items, key=lambda x: x[1], reverse=True): a stable sort, so equal
\* ratings keep their order; with a NaN among the keys the comparisons are
\* inconsistent and the order is whatever the sort leaves.
SortedOrders(items) ==
    IF \E i \in DOMAIN items : IsNaN(items[i][2]) THEN Orders(Len(items))
    ELSE {p \in Orders(Len(items)) :
            \A i, j \in DOMAIN items : i < j =>
                \/ FLt(items[p[j]][2], items[p[i]][2])
                \/ (items[p[i]][2] = items[p[j]][2] /\ p[i] < p[j])}

\* top_movies of line 172 under the order p.
TopMovies(items, k, p) == Slice([i \in DOMAIN p |-> items[p[i]]], k)

----------------------------------------------------------------------------
\* The calls.  Each records its name, arguments and outcome, and drops the
\* values earlier calls returned.

Called(name, t, k) == op' = name /\ target_user' = t /\ n' = k

\* pearson_similarity_matrix(ratings), lines 50-58.
pearson_similarity_matrix ==
    /\ Called("pearson_similarity_matrix", 0, 0)
    /\ IF PearsonRaises(ratings)
       THEN outcome' = "ValueError" /\ UNCHANGED <<similarity_df, files>>
       ELSE /\ outcome' = "ok"
            /\ similarity_df' = PearsonFrame(ratings)
            /\ files' = [files EXCEPT ![SavePath] = ToCsv(PearsonFrame(ratings))]
    /\ similar_users' = <<>> /\ top_movies' = <<>> /\ exists' = FALSE
    /\ UNCHANGED <<ratings, title, predictions>>

\* cosine_similarity_matrix(ratings), lines 70-76.
cosine_similarity_matrix ==
    /\ Called("cosine_similarity_matrix", 0, 0)
    /\ outcome' = "ok"
    /\ similarity_df' = CosineFrame(ratings)
    /\ similar_users' = <<>> /\ top_movies' = <<>> /\ exists' = FALSE
    /\ UNCHANGED <<ratings, title, files, predictions>>

\* does_correlation_matrix_exist(), lines 36-38.
does_correlation_matrix_exist ==
    /\ Called("does_correlation_matrix_exist", 0, 0)
    /\ outcome' = "ok"
    /\ exists' = files[ExistsPath].present
    /\ similar_users' = <<>> /\ top_movies' = <<>>
    /\ UNCHANGED <<ratings, title, files, similarity_df, predictions>>

\* load_correlation_matrix(), lines 25-27.
load_correlation_matrix ==
    /\ Called("load_correlation_matrix", 0, 0)
    /\ IF files[LoadPath].present
       THEN outcome' = "ok" /\ similarity_df' = ReadCsv(files[LoadPath])
       ELSE outcome' = "FileNotFoundError" /\ UNCHANGED similarity_df
    /\ similar_users' = <<>> /\ top_movies' = <<>> /\ exists' = FALSE
    /\ UNCHANGED <<ratings, title, files, predictions>>

\* A lookup that answers a missing column with an empty Series.
LookupOutcomeSwallowed(df, t) == "ok"

\* The outcome of similarity_df[target_user] (line 90).
LookupOutcome(df, t) == IF HasColumn(df, t) THEN "ok" ELSE "KeyError"

\* get_top_similar_users(similarity_df, target_user, n), lines 90-96.
get_top_similar_users(t, k) ==
    /\ Called("get_top_similar_users", t, k)
    /\ outcome' = LookupOutcome(similarity_df, t)
    /\ IF HasColumn(similarity_df, t)
       THEN \E p \in DescendingOrders(Column(similarity_df, t)) :
                similar_users' = TopSimilarUsers(similarity_df, t, k, p)
       ELSE similar_users' = <<>>
    /\ top_movies' = <<>> /\ exists' = FALSE
    /\ UNCHANGED <<ratings, title, files, similarity_df, predictions>>

\* predict_ratings(ratings, similarity_df, target_user), lines 123-159; the
\* KeyError of the call of line 130 is not caught.
predict_ratings(t) ==
    /\ Called("predict_ratings", t, DefaultNeighbors)
    /\ outcome' = LookupOutcome(similarity_df, t)
    /\ IF HasColumn(similarity_df, t)
       THEN \E p \in DescendingOrders(Column(similarity_df, t)) :
                LET nb == TopSimilarUsers(similarity_df, t, DefaultNeighbors, p)
                IN  predictions' =
                        PredictedRatings(<<>>, ratings, title, nb, t,
                                         UnseenMovies(ratings, t, nb), 1)
       ELSE UNCHANGED predictions
    /\ similar_users' = <<>> /\ top_movies' = <<>> /\ exists' = FALSE
    /\ UNCHANGED <<ratings, title, files, similarity_df>>

\* recommend_movies(predictions, n), line 172.
recommend_movies(k) ==
    /\ Called("recommend_movies", 0, k)
    /\ outcome' = "ok"
    /\ \E p \in SortedOrders(predictions) : top_movies' = TopMovies(predictions, k, p)
    /\ similar_users' = <<>> /\ exists' = FALSE
    /\ UNCHANGED <<ratings, title, files, similarity_df, predictions>>

----------------------------------------------------------------------------
\* Inputs.

\* The ratings tables with at least one row and at most MaxRows.
RatingTables ==
    {r \in [UserIds -> [MovieIds -> 0..MaxRating]] :
        Cardinality({um \in UserIds \X MovieIds : r[um[1]][um[2]] # 0}) \in 1..MaxRows}

NoRatings == [u \in UserIds |-> [m \in MovieIds |-> 0]]

TitleNames == <<"A", "B", "C", "D", "E", "F">>

\* The movies table: movies 2k-1 and 2k share a title (as a film and its remake
\* do), so with an odd NumMovies the last movie has a title of its own.
SharedTitles == [m \in MovieIds |-> TitleNames[(m + 1) \div 2]]

NoFiles == [f \in Paths |-> NoFile]

\* No file yet, or a matrix computed earlier from these ratings and moved to
\* the path load_correlation_matrix reads.
InitialFiles(r) ==
    {NoFiles} \cup
    (IF PearsonRaises(r) THEN {}
     ELSE {[NoFiles EXCEPT ![LoadPath] = ToCsv(PearsonFrame(r))]})

NothingCalled ==
    /\ op = "start" /\ target_user = 0 /\ n = 0 /\ outcome = "ok"
    /\ similar_users = <<>> /\ top_movies = <<>> /\ exists = FALSE

\* The calls that build or fetch the matrix.
MatrixCalls == {"start", "pearson_similarity_matrix", "cosine_similarity_matrix",
                "does_correlation_matrix_exist", "load_correlation_matrix"}

Targets == 1..(NumUsers + 1)

----------------------------------------------------------------------------
\* The pipeline: the dataset is loaded, the matrix is computed or loaded, a
\* target user's neighbours or predictions are computed from it, and the
\* predictions are ranked.

Init ==
    /\ ratings \in RatingTables
    /\ title = SharedTitles
    /\ files \in InitialFiles(ratings)
    /\ similarity_df = NoFrame
    /\ predictions = <<>>
    /\ NothingCalled

Next ==
    \/ similarity_df = NoFrame /\ pearson_similarity_matrix
    \/ similarity_df = NoFrame /\ cosine_similarity_matrix
    \/ op \in MatrixCalls /\ does_correlation_matrix_exist
    \/ op \in MatrixCalls /\ load_correlation_matrix
    \/ /\ op \in MatrixCalls /\ similarity_df # NoFrame
       /\ \E t \in Targets : get_top_similar_users(t, DefaultNeighbors)
    \/ /\ op \in MatrixCalls /\ similarity_df # NoFrame
       /\ \E t \in Targets : predict_ratings(t)
    \/ /\ op = "predict_ratings" /\ outcome = "ok"
       /\ recommend_movies(DefaultTopN)

Spec == Init /\ [][Next]_vars

----------------------------------------------------------------------------
\* get_top_similar_users and predict_ratings on any similarity matrix: square
\* over the userIds, symmetric, with a zero diagonal.

Pairs == {ij \in UserIds \X UserIds : ij[1] < ij[2]}

SymmetricFrames(cells) ==
    {DataFrame(SortedSeq(UserIds), SortedSeq(UserIds), "int64",
        [i \in UserIds |-> [j \in UserIds |->
            IF i = j THEN FromInt(0)
            ELSE IF i < j THEN c[<<i, j>>] ELSE c[<<j, i>>]]]) :
     c \in [Pairs -> cells]}

\* The similarities -1, 0 and 1.
SimilarityCells == {FromInt(-1), FromInt(0), FromInt(1)}

InitNeighborhood ==
    /\ ratings = NoRatings
    /\ title = SharedTitles
    /\ files = NoFiles
    /\ similarity_df \in SymmetricFrames(SimilarityCells \cup {NaN})
    /\ predictions = <<>>
    /\ NothingCalled

NextNeighborhood ==
    \/ op = "start" /\ \E t \in Targets, k \in (-MaxN)..MaxN : get_top_similar_users(t, k)
    \/ op = "start" /\ \E t \in Targets : predict_ratings(t)

SpecNeighborhood == InitNeighborhood /\ [][NextNeighborhood]_vars

InitPredict ==
    /\ ratings \in RatingTables
    /\ title = SharedTitles
    /\ files = NoFiles
    /\ similarity_df \in SymmetricFrames(SimilarityCells)
    /\ predictions = <<>>
    /\ NothingCalled

NextPredict ==
    op = "start" /\ \E t \in UserIds : predict_ratings(t)

SpecPredict == InitPredict /\ [][NextPredict]_vars

----------------------------------------------------------------------------
\* recommend_movies on any predictions dict of at most MaxItems titles.

\* 1, sqrt(2), 3/2 and NaN.
PredictedValues == {FromInt(1), Surd(2, 2), Rat(3, 2), NaN}

Dicts ==
    UNION {{d \in [1..len -> Range(TitleNames) \X PredictedValues] :
               \A i, j \in 1..len : d[i][1] = d[j][1] => i = j} :
           len \in 0..MaxItems}

InitRecommend ==
    /\ ratings = NoRatings
    /\ title = SharedTitles
    /\ files = NoFiles
    /\ similarity_df = NoFrame
    /\ predictions \in Dicts
    /\ NothingCalled

NextRecommend ==
    op = "start" /\ \E k \in ((-MaxN)..MaxN) \cup {DefaultTopN} : recommend_movies(k)

SpecRecommend == InitRecommend /\ [][NextRecommend]_vars

----------------------------------------------------------------------------
\* Properties.

Cells(df) == {df.values[i][j] : i \in DOMAIN df.values, j \in DOMAIN df.values}

Returned(name) == op = name /\ outcome = "ok"

\* C1: the matrix pearson_similarity_matrix or cosine_similarity_matrix returns
\* is symmetric, M[i][j] == M[j][i] for all users i and j, and every diagonal
\* entry is 0.
C1_SymmetricZeroDiagonal ==
    (Returned("pearson_similarity_matrix") \/ Returned("cosine_similarity_matrix")) =>
        \A i, j \in DOMAIN similarity_df.index :
            /\ FEq(similarity_df.values[i][j], similarity_df.values[j][i])
            /\ FEq(similarity_df.values[i][i], FromInt(0))

\* C2: from a matrix without NaN, with a zero diagonal and at least k+1 users,
\* the k neighbours get_top_similar_users returns never include the target
\* user, and their similarities do not increase along the sequence.
C2_TargetExcludedAndSorted ==
    ( /\ Returned("get_top_similar_users")
      /\ NaN \notin Cells(similarity_df)
      /\ n >= 0 /\ Len(similarity_df.index) >= n + 1 ) =>
        /\ \A i \in DOMAIN similar_users : similar_users[i][1] # target_user
        /\ \A i \in DOMAIN similar_users :
               i < Len(similar_users) => FGe(similar_users[i][2], similar_users[i + 1][2])

\* C3: no key of the dict predict_ratings returns is the title of a movie the
\* target user has rated.
C3_NoRatedTitlePredicted ==
    Returned("predict_ratings") =>
        \A i \in DOMAIN predictions :
            \A m \in RatedMovies(ratings, target_user) : predictions[i][1] # title[m]

\* The neighbourhood predict_ratings uses when the matrix has at most
\* DefaultNeighbors users: every user of the index, the target included.
AllNeighbours(df, t) == [i \in DOMAIN df.index |-> <<df.index[i], Column(df, t)[i]>>]

\* The movies rated by a neighbour and not by the target.
Candidates(r, df, t) ==
    {m \in MovieIds : ~Rated(r, t, m) /\ \E i \in DOMAIN df.index : Rated(r, df.index[i], m)}

\* C4: every candidate movie is in the returned dict, under its title and with
\* the value targetMean + weightedSum / similaritySum, exactly when its
\* similaritySum is not 0.
C4_PredictionFormula ==
    Returned("predict_ratings") =>
        LET nb == AllNeighbours(similarity_df, target_user)
        IN  \A m \in Candidates(ratings, similarity_df, target_user) :
                IF FNe(SimilaritySum(ratings, nb, m, Len(nb)), FromInt(0))
                THEN \E i \in DOMAIN predictions :
                        predictions[i] = <<title[m], PredictedRating(ratings, nb, target_user, m)>>
                ELSE \A i \in DOMAIN predictions : predictions[i][1] # title[m]

\* C5: get_top_similar_users returns at most k neighbours, and none when k <= 0.
C5_AtMostKNeighbours ==
    Returned("get_top_similar_users") =>
        /\ n > 0 => Len(similar_users) <= n
        /\ n <= 0 => similar_users = <<>>

\* C6: from a dict without NaN recommend_movies returns at most n of its items,
\* in non-increasing order of predicted rating, and every item when the dict has
\* fewer than n.
C6_TopNSortedDescending ==
    (Returned("recommend_movies") /\ \A i \in DOMAIN predictions : ~IsNaN(predictions[i][2])) =>
        /\ n > 0 => Len(top_movies) <= n
        /\ n <= 0 => top_movies = <<>>
        /\ Range(top_movies) \subseteq Range(predictions)
        /\ \A i \in DOMAIN top_movies :
               i < Len(top_movies) => FGe(top_movies[i][2], top_movies[i + 1][2])
        /\ Len(predictions) < n => Range(top_movies) = Range(predictions)

\* C7: predict_ratings for a target user that is in the similarity matrix and
\* has no rating ends in an error and returns no predictions.
C7_NoRatingsRaises ==
    ( /\ op = "predict_ratings"
      /\ HasColumn(similarity_df, target_user)
      /\ RatedMovies(ratings, target_user) = {} ) =>
        outcome # "ok" /\ predictions = <<>>

\* A user whose zero-filled rating vector has zero variance.
ZeroVariance(r, u) == Cov(r, u, u, PivotMovies(r)) = 0

\* C8: pearson_similarity_matrix gives similarity 0 to every pair with a user of
\* zero variance, so its matrix holds no NaN, and neither do the neighbours
\* nor the predictions computed from it.
C8_ZeroVarianceGivesZero ==
    /\ Returned("pearson_similarity_matrix") =>
           /\ \A i, j \in DOMAIN similarity_df.index :
                  ZeroVariance(ratings, similarity_df.index[i]) =>
                      similarity_df.values[i][j] = FromInt(0)
           /\ NaN \notin Cells(similarity_df)
    /\ (Returned("get_top_similar_users") /\ files[SavePath].present) =>
           \A i \in DOMAIN similar_users : ~IsNaN(similar_users[i][2])
    /\ (Returned("predict_ratings") /\ files[SavePath].present) =>
           \A i \in DOMAIN predictions : ~IsNaN(predictions[i][2])

\* C9: with a target user that is not in the index of the similarity matrix,
\* get_top_similar_users and predict_ratings end in an error and return
\* neither neighbours nor predictions.
C9_UnknownUserRaises ==
    ( /\ op \in {"get_top_similar_users", "predict_ratings"}
      /\ target_user \notin Range(similarity_df.index) ) =>
        outcome # "ok" /\ similar_users = <<>> /\ predictions = <<>>

\* predict_ratings was called for a user that is not in the matrix, and raised.
C9_Witness ==
    /\ op = "predict_ratings"
    /\ target_user \notin Range(similarity_df.index)
    /\ outcome = "KeyError"

\* No call writes LoadPath or ExistsPath: they are as they were at the start.
StartedWithoutCache == ~files[LoadPath].present /\ ~files[ExistsPath].present

\* C10: started without a cache file, once pearson_similarity_matrix has saved
\* its matrix, does_correlation_matrix_exist returns true and
\* load_correlation_matrix returns that matrix, userId index included.
C10_CacheRoundTrip ==
    (StartedWithoutCache /\ files[SavePath].present) =>
        /\ op = "does_correlation_matrix_exist" => exists
        /\ op = "load_correlation_matrix" =>
               outcome = "ok" /\ similarity_df = PearsonFrame(ratings)

====
